---- MODULE Spec2Model ----
(***************************************************************************)
(* State-machine model of the Db facade of cozo (src/src/runtime/db.rs):   *)
(* multi-statement scripts run inside one session transaction, the registry*)
(* of running queries with its drop guard, the poison flag with its        *)
(* timeout timer and KillRunning, and the commit / deferred range-delete   *)
(* protocol of do_run_script and remove_relation.                          *)
(*                                                                         *)
(* SessionTx (relation_exists, get_relation, ensure_compatible,            *)
(* execute_relation, destroy_relation, stratified_magic_evaluate,          *)
(* commit_tx) and the program pipeline live outside the available sources; *)
(* they are modelled from the design document and marked as such.          *)
(* Values the model does not compute (result rows, schema compatibility,   *)
(* failures of the storage engine or of the compiler) are drawn            *)
(* nondeterministically at the line of run_query that reads them, and so   *)
(* are the statement options :timeout and :assert.  Sessions are           *)
(* interchangeable; they are numbered in the order of their first          *)
(* operation.                                                              *)
(***************************************************************************)
EXTENDS Integers, Sequences, FiniteSets, TLC

\* ---------------------------------------------------------------- bounds
NSessions == 2          \* sessions created with Db::new_session
MaxStmts == 2           \* statements of one CozoScript::Multi
MaxOps == 2             \* work submitted in all: statements, :timeout options,
                        \* RemoveRelation and KillRunning operations
MaxRounds == 1          \* further fixpoint rounds one evaluation can need
MaxRows == 1            \* rows in the result of one evaluation
MaxOpens == 4           \* calls of Db::build on one data directory
MaxVersion == 2         \* storage versions a manifest on disk can record
MaxArity == 2           \* values in one Tuple
MaxInt == 1             \* integer values 0..MaxInt

Sessions == 1..NSessions
Names == {"R"}
StoreOps == {"Create", "Put", "ReDerive"}

\* out_opts.store_relation of one statement: None, or Some((meta, op)).
NoStore == [op |-> "None", name |-> "-"]
Targets == {NoStore} \cup [op : StoreOps, name : Names]
Scripts == UNION {[1..n -> Targets] : n \in 1..MaxStmts}

\* One run_query call is identified by its session and statement position.
Queries == Sessions \X (1..MaxStmts)
NoId == -1
Ids == 0..MaxOps

VARIABLES
    queries_count,      \* Db.queries_count (AtomicU64 shared by all sessions)
    running_queries,    \* Db.running_queries: id -> handle (the query owning the poison)
    poison,             \* Poison.0 of each query's handle (AtomicBool)
    timer,              \* the thread spawned by Poison::set_timeout is asleep
    qid,                \* id returned by fetch_add for each query
    removed,            \* how often the guard of a query removed a registry entry
    pc,                 \* position of each session in do_run_script / remove_relation
    ps,                 \* statements of the script still to run
    cur,                \* position of the current statement in the script
    is_write,           \* do_run_script's is_write
    tx,                 \* the SessionTx of the script: catalog view and written relations
    clean_ups,          \* run_query's clean_ups
    cleanups,           \* do_run_script's cleanups
    err,                \* error the current run_query / script ends with
    rounds,             \* fixpoint rounds of the current evaluation
    catalog,            \* committed catalog of the store: the names present
    committed,          \* outcome of the session's commit_tx: no/ok/failed
    deleted,            \* ranges handed to db.range_del by each session, in order
    n_ops,              \* work submitted so far (bounded by MaxOps)
    kill_reply,         \* status row of the last KillRunning
    killed_at,          \* history: where run_query stood when KillRunning stored into its flag
    manifest,           \* storage_version in <path>/manifest, NoManifest if no file
    store,              \* the storage engine's store <path>/data exists
    bpc,                \* position / outcome of the current call of Db::build
    is_new,             \* Db::build's is_new
    engine,             \* the current build call has opened the storage engine
    transacted,         \* the current build call has started a transaction
    n_opens,            \* calls of Db::build so far (bounded by MaxOpens)
    manifest_writes,    \* fs::write calls on the manifest so far
    cpc,                \* what has been done with the tuple at hand
    tup,                \* a Tuple: its sequence of DataValue
    pfx,                \* the prefix given to encode_as_key
    slice,              \* the bytes an EncodedTuple views
    other,              \* a second Tuple, compared with tup
    idx,                \* the index given to EncodedTuple::get
    res,                \* the result of the last get
    ord,                \* the sign of the last bytewise comparison
    size,               \* EncodedTupleIter.size
    pos,                \* EncodedTupleIter.pos
    items,              \* the first items next() has returned
    snd,                \* the Snd column family under RelationId::SYSTEM: key -> value
    rels,               \* history: the relations created and not removed or renamed away
    kvs,                \* history: the meta entries put and not removed since
    mpc,                \* the last call on the meta store: idle / listed / scanned
    listed,             \* the rows of the last list_relations
    given,              \* the prefix given to the last meta_range_scan
    found               \* the items of the last meta_range_scan

\* The state of an open Db and its sessions.
dvars == <<queries_count, running_queries, poison, timer, qid, removed, pc, ps, cur,
           is_write, tx, clean_ups, cleanups, err, rounds, catalog, committed,
           deleted, n_ops, kill_reply, killed_at>>

\* The data directory and the call of Db::build.
bvars == <<manifest, store, bpc, is_new, engine, transacted, n_opens, manifest_writes>>

\* A Tuple, its encoding and an iterator over it.
cvars == <<cpc, tup, pfx, slice, other, idx, res, ord, size, pos, items>>

\* The system key space and the calls that list and scan it.
mvars == <<snd, rels, kvs, mpc, listed, given, found>>

\* What the operations on an open Db leave alone.
xvars == <<bvars, cvars, mvars>>

vars == <<dvars, xvars>>

qvars == <<queries_count, running_queries, poison, timer, qid, removed>>
svars == <<ps, cur, is_write, tx, clean_ups, cleanups, rounds>>
dbvars == <<catalog, committed, deleted>>
kvars == <<n_ops, kill_reply, killed_at>>

\* The query the session is running.
Q(s) == <<s, cur[s]>>

\* ---------------------------------------------------------- data/tuple.rs
\* A DataValue: a number (an integer here) or a string (a sequence of bytes).
Num(n) == [t |-> "Num", n |-> n, s |-> << >>]
Str(s) == [t |-> "Str", n |-> 0, s |-> s]

\* Strings of different lengths, one of them holding the bytes 0 0 0 8.
Strs == {<< >>, <<98>>, <<97, 97>>, <<97, 97, 97, 0, 0, 0, 8>>}
Values == {Num(n) : n \in 0..MaxInt} \cup {Str(s) : s \in Strs}
Tuples == UNION {[1..n -> Values] : n \in 0..MaxArity}
Prefixes == {0, 123}

\* Result<T, E>; the v of an Err is never read.
Ok(v) == [ok |-> TRUE, v |-> v, e |-> "none"]
Err(e) == [ok |-> FALSE, v |-> Num(0), e |-> e]

\* u32::to_be_bytes (the lengths cast `as u32` stay far below 2^32 here)
to_be_bytes(n) ==
    <<(n \div 16777216) % 256, (n \div 65536) % 256, (n \div 256) % 256, n % 256>>

\* u32::from_be_bytes([b[at], b[at + 1], b[at + 2], b[at + 3]]), at counted from 0.
\* A number of 2^24 or more stands for itself as 2^24: it is only ever used as
\* a position or a count, and every slice here is far shorter than that.
from_be_bytes(b, at) ==
    IF b[at + 1] > 0 THEN 16777216
    ELSE b[at + 2] * 65536 + b[at + 3] * 256 + b[at + 4]

\* Vec::resize(n, 0): truncates or pads with zeros
resize(v, n) ==
    IF n <= Len(v) THEN SubSeq(v, 1, n) ELSE v \o [i \in 1..(n - Len(v)) |-> 0]

\* val.serialize(&mut Serializer::new(&mut ret)): MessagePack, a positive fixint
\* for an integer below 128 and a fixstr (0xa0 + length, then the bytes) for a
\* string shorter than 32 bytes.
serialize(val) ==
    IF val.t = "Num" THEN <<val.n>> ELSE <<160 + Len(val.s)>> \o val.s

\* rmp_serde::from_slice: one value from the head of s, trailing bytes ignored.
from_slice(s) ==
    IF s = << >> THEN Err("Decode")
    ELSE IF s[1] < 128 THEN Ok(Num(s[1]))
    ELSE IF s[1] >= 160 /\ s[1] < 192 /\ Len(s) >= 1 + (s[1] - 160)
         THEN Ok(Str(SubSeq(s, 2, 1 + (s[1] - 160))))
    ELSE Err("Decode")

\* The loop of encode_as_key from position i (counted from 0) on.
RECURSIVE encode_loop(_, _, _)
encode_loop(ret, vals, i) ==
    IF i >= Len(vals) THEN ret
    ELSE LET p == to_be_bytes(Len(ret))
             r == IF i > 0
                  THEN [k \in 1..Len(ret) |->
                          IF k > 4 * (1 + i) /\ k <= 4 * (1 + i) + 4
                          THEN p[k - 4 * (1 + i)] ELSE ret[k]]
                  ELSE ret
         IN  encode_loop(r \o serialize(vals[i + 1]), vals, i + 1)

\* encode_as_key up to the loop: prefix, arity, and the resize.
encode_header(vals, prefix) ==
    resize(to_be_bytes(prefix) \o to_be_bytes(Len(vals)),
           4 * (Len(vals) + 1))

\* Tuple::encode_as_key
encode_as_key(vals, prefix) == encode_loop(encode_header(vals, prefix), vals, 0)

\* EncodedTuple::prefix
prefix(b) == IF Len(b) < 4 THEN Err("BadData") ELSE Ok(from_be_bytes(b, 0))

\* EncodedTuple::arity
arity(b) == IF Len(b) < 8 THEN Err("BadData") ELSE Ok(from_be_bytes(b, 4))

\* EncodedTuple::get: the position of the value, or the error on the way to it.
get_pos(b, i) ==
    IF i = 0
    THEN IF arity(b).ok THEN Ok(4 * (arity(b).v + 1)) ELSE arity(b)
    ELSE IF Len(b) < (i + 1) * 4 + 4 THEN Err("BadData")
         ELSE Ok(from_be_bytes(b, (i + 1) * 4))

\* EncodedTuple::get
get(b, i) ==
    IF ~get_pos(b, i).ok THEN get_pos(b, i)
    ELSE IF get_pos(b, i).v >= Len(b) THEN Err("BadData")
    ELSE from_slice(SubSeq(b, get_pos(b, i).v + 1, Len(b)))

\* Ordering as a sign
sign(lt, eq) == IF eq THEN 0 ELSE IF lt THEN -1 ELSE 1

\* <[u8] as Ord>::cmp: byte-lexicographic
RECURSIVE byte_compare(_, _)
byte_compare(a, b) ==
    IF a = << >> \/ b = << >> THEN sign(a = << >>, a = b)
    ELSE IF a[1] # b[1] THEN sign(a[1] < b[1], FALSE)
    ELSE byte_compare(Tail(a), Tail(b))

\* DataValue::Guard and DataValue::Bot, the sentinels of the system key space.
Guard == [t |-> "Guard", n |-> 0, s |-> << >>]
Bot == [t |-> "Bot", n |-> 0, s |-> << >>]

\* The place of a kind of value in DataValue's order: the guard first, bottom last.
type_rank(t) ==
    CASE t = "Guard" -> 0
      [] t = "Num" -> 1
      [] t = "Str" -> 2
      [] t = "Bot" -> 3

\* DataValue's order: numbers numerically and before strings, strings by code point.
value_compare(x, y) ==
    IF x.t # y.t THEN sign(type_rank(x.t) < type_rank(y.t), FALSE)
    ELSE IF x.t = "Num" THEN sign(x.n < y.n, x.n = y.n)
    ELSE byte_compare(x.s, y.s)

\* Vec<DataValue>'s order: value by value, a proper prefix first.
RECURSIVE tuple_compare(_, _)
tuple_compare(a, b) ==
    IF a = << >> \/ b = << >> THEN sign(a = << >>, a = b)
    ELSE IF value_compare(a[1], b[1]) # 0 THEN value_compare(a[1], b[1])
    ELSE tuple_compare(Tail(a), Tail(b))

\* ------------------------------------------------------------ SessionTx
\* SessionTx::relation_exists
relation_exists(t, name) == name \in t.cat

\* SessionTx::get_relation: relation-not-found when absent
get_relation_ok(t, name) == name \in t.cat

\* The to_clear range returned by SessionTx::execute_relation: the stale range
\* of a relation that RE-DERIVE replaces.
to_clear(t, st) ==
    IF st.op = "ReDerive" /\ st.name \in t.cat THEN <<st.name>> ELSE << >>

\* The transaction after SessionTx::execute_relation.
execute_relation(t, st) ==
    [t EXCEPT !.cat = t.cat \cup {st.name}, !.wrote = t.wrote \cup {st.name}]

\* The transaction after SessionTx::destroy_relation.
destroy_relation(t, name) ==
    [t EXCEPT !.cat = t.cat \ {name}, !.wrote = t.wrote \cup {name}]

\* What a successful commit_tx makes visible in the store.
commit_tx(t, c) == (c \ t.wrote) \cup (t.cat \cap t.wrote)

\* to_normalized_program: RE-DERIVE requires the target to be present.
normalize_ok(t, st) == st.op = "ReDerive" => st.name \in t.cat

\* ------------------------------------------------------------ run_query
\* Mutant of PreCheck: CREATE is let through although the name exists.
PreCheck_no_conflict(t, st, compat) ==
    IF st.op \in {"None", "Create", "ReDerive"} THEN "ok"
    ELSE IF st.name \notin t.cat THEN "not_found"
    ELSE IF ~compat THEN "incompatible"
    ELSE "ok"

\* Mutant of PreCheck: the presence of the target is not checked.
PreCheck_no_not_found(t, st, compat) ==
    IF st.op = "None" THEN "ok"
    ELSE IF st.op = "Create"
         THEN IF relation_exists(t, st.name) THEN "conflict" ELSE "ok"
    ELSE IF st.op # "ReDerive"
         THEN IF ~compat THEN "incompatible" ELSE "ok"
    ELSE "ok"

\* Mutant of PreCheck: RE-DERIVE goes through the checks of the other modes.
PreCheck_rederive_checked(t, st, compat) ==
    IF st.op = "None" THEN "ok"
    ELSE IF st.op = "Create"
         THEN IF relation_exists(t, st.name) THEN "conflict" ELSE "ok"
    ELSE IF ~relation_exists(t, st.name) THEN "not_found"
    ELSE IF ~compat THEN "incompatible"
    ELSE "ok"

\* Mutant of PreCheck: the result of ensure_compatible is dropped.
PreCheck_no_compat(t, st, compat) ==
    IF st.op = "None" THEN "ok"
    ELSE IF st.op = "Create"
         THEN IF relation_exists(t, st.name) THEN "conflict" ELSE "ok"
    ELSE IF st.op # "ReDerive"
         THEN IF ~relation_exists(t, st.name) THEN "not_found" ELSE "ok"
    ELSE "ok"

\* The output-mode pre-check at the head of run_query; compat is the outcome
\* of existing.ensure_compatible(meta).
PreCheck(t, st, compat) ==
    IF st.op = "None" THEN "ok"
    ELSE IF st.op = "Create"
         THEN IF relation_exists(t, st.name) THEN "conflict" ELSE "ok"
    ELSE IF st.op # "ReDerive"
         THEN IF ~get_relation_ok(t, st.name) THEN "not_found"
              ELSE IF ~relation_exists(t, st.name) THEN "not_found"
              ELSE IF ~compat THEN "incompatible"
              ELSE "ok"
    ELSE "ok"

\* Mutant of Poison_check: the flag is not looked at.
Poison_check_never(p) == "ok"

\* Poison::check
Poison_check(p) == IF p THEN "killed" ELSE "ok"

\* Mutant of fetch_add: the increment is lost.
fetch_add_lost(c) == c

\* AtomicU64::fetch_add(1): the value stored back
fetch_add(c) == c + 1

\* Mutant of map_insert: the handle is not inserted.
map_insert_nothing(m, id, h) == m

\* BTreeMap::insert
map_insert(m, id, h) ==
    [i \in DOMAIN m \cup {id} |-> IF i = id THEN h ELSE m[i]]

\* Mutant of map_remove: the entry stays in the map.
map_remove_nothing(m, id) == m

\* BTreeMap::remove
map_remove(m, id) == [i \in DOMAIN m \ {id} |-> m[i]]

\* Mutant of drop_store: the guard resets the flag.
drop_store_false(pz, q) == [pz EXCEPT ![q] = FALSE]

\* The flags after RunningQueryCleanup::drop stored into the removed handle's.
drop_store(pz, q) == [pz EXCEPT ![q] = TRUE]

\* Mutant of timer_pill: one flag per session, reused by its statements.
timer_pill_reused(q) == <<q[1], (q[2] % MaxStmts) + 1>>

\* The flag a timer thread stores into: pill = self.0.clone().
timer_pill(q) == q

\* Mutant of timer_store: the thread ends without storing.
timer_store_nothing(pz, q) == pz

\* Poison::set_timeout's thread after the sleep: pill.store(true)
timer_store(pz, q) == [pz EXCEPT ![timer_pill(q)] = TRUE]

\* Mutant of kill_store: every flag is set.
kill_store_all(pz, m, id) == [q \in DOMAIN pz |-> TRUE]

\* KillRunning: handle.poison.0.store(true) for the handle found under id.
kill_store(pz, m, id) == [pz EXCEPT ![m[id]] = TRUE]

\* KillRunning: the status row of the reply.
kill_status(m, id) == IF id \in DOMAIN m THEN "KILLING" ELSE "NOT_FOUND"

\* Mutant of assertion_result: the assertion is not evaluated.
assertion_result_never(a, rows) == "none"

\* QueryAssertion handling after evaluation, on the number of result rows.
assertion_result(a, rows) ==
    CASE a = "AssertNone" /\ rows > 0 -> "assert_none_failure"
      [] a = "AssertSome" /\ rows = 0 -> "assert_some_failure"
      [] OTHER -> "none"

\* Mutant of after_query: the transaction is committed whatever is_write says.
after_query_commits(e, rest, w, cl) ==
    IF e # "none" THEN "failed"
    ELSE IF rest # << >> THEN "prepare"
    ELSE "commit"

\* Mutant of after_query: the error of run_query is dropped.
after_query_unchecked(e, rest, w, cl) ==
    IF rest # << >> THEN "prepare"
    ELSE IF w THEN "commit"
    ELSE IF cl # << >> THEN "panic"
    ELSE "done"

\* do_run_script after `self.run_query(&mut tx, p)?`: where control goes next.
after_query(e, rest, w, cl) ==
    IF e # "none" THEN "failed"
    ELSE IF rest # << >> THEN "prepare"
    ELSE IF w THEN "commit"
    ELSE IF cl # << >> THEN "panic"
    ELSE "done"

\* Mutant of after_commit: the result of commit_tx is dropped.
after_commit_unchecked(ok, cl) == IF cl # << >> THEN "cleanup" ELSE "done"

\* do_run_script after `tx.commit_tx()?`: where control goes next.
after_commit(ok, cl) ==
    IF ~ok THEN "failed" ELSE IF cl # << >> THEN "cleanup" ELSE "done"

\* remove_relation after `tx.commit_tx()?`: where control goes next.
after_rm_commit(ok) == IF ok THEN "rm_range_del" ELSE "failed"

NoTx == [open |-> FALSE, cat |-> {}, wrote |-> {}, snap |-> {}, stale |-> {},
         set_snapshot |-> FALSE]

\* Mutant of transact_write: the transaction is started without a snapshot.
transact_write_no_snapshot(c) ==
    [open |-> TRUE, cat |-> c, wrote |-> {}, snap |-> c, stale |-> {},
     set_snapshot |-> FALSE]

\* Db::transact_write (and Db::transact, the same code): the transaction reads
\* the catalog as of its start; self.db.transact().set_snapshot(true).start().
transact_write(c) ==
    [open |-> TRUE, cat |-> c, wrote |-> {}, snap |-> c, stale |-> {},
     set_snapshot |-> TRUE]

\* The storage engine on a transaction with a snapshot: a catalog entry the
\* transaction puts or deletes has been changed in the store since the snapshot
\* was taken.
write_conflict(t) ==
    t.set_snapshot /\ \E name \in t.wrote \cap t.stale : (name \in t.snap) # (name \in t.cat)

\* The storage engine at a commit that takes the catalog from c to c2: the entries
\* changed are newer than the start of every open transaction; the committed
\* transaction of session s is over.
commit_seen(txs, s, c, c2) ==
    [u \in DOMAIN txs |->
        IF u = s THEN NoTx
        ELSE IF txs[u].open
             THEN [txs[u] EXCEPT !.stale = @ \cup {name \in c \cup c2 : (name \in c) # (name \in c2)}]
             ELSE txs[u]]

\* const CURRENT_STORAGE_VERSION
CURRENT_STORAGE_VERSION == 1

\* manifest_path.exists() is false.
NoManifest == 0

Versions == 1..MaxVersion

\* The data directory and the build call once Db::build has returned a Db.
Built ==
    /\ manifest = CURRENT_STORAGE_VERSION
    /\ store = TRUE
    /\ bpc = "ok"
    /\ is_new = FALSE
    /\ engine = TRUE
    /\ transacted = TRUE
    /\ n_opens = 1
    /\ manifest_writes = 0

\* ----------------------------------------------------------------- Init
\* The fields of a Db as Db::build makes them, and no session at work.
DbFresh ==
    /\ queries_count = 0
    /\ running_queries = << >>
    /\ poison = [q \in Queries |-> FALSE]
    /\ timer = [q \in Queries |-> FALSE]
    /\ qid = [q \in Queries |-> NoId]
    /\ removed = [q \in Queries |-> 0]
    /\ pc = [s \in Sessions |-> "idle"]
    /\ ps = [s \in Sessions |-> << >>]
    /\ cur = [s \in Sessions |-> 1]
    /\ is_write = [s \in Sessions |-> FALSE]
    /\ tx = [s \in Sessions |-> NoTx]
    /\ clean_ups = [s \in Sessions |-> << >>]
    /\ cleanups = [s \in Sessions |-> << >>]
    /\ err = [s \in Sessions |-> "none"]
    /\ rounds = [s \in Sessions |-> 0]
    /\ catalog = {}
    /\ committed = [s \in Sessions |-> "no"]
    /\ deleted = [s \in Sessions |-> << >>]
    /\ n_ops = 0
    /\ kill_reply = "none"
    /\ killed_at = [q \in Queries |-> "none"]

\* No tuple at hand.
NoTuple ==
    /\ cpc = "idle"
    /\ tup = << >>
    /\ pfx = 0
    /\ slice = << >>
    /\ other = << >>
    /\ idx = 0
    /\ res = Err("none")
    /\ ord = 0
    /\ size = 0
    /\ pos = 0
    /\ items = << >>

\* Nothing is stored in the system key space yet.
NoMeta ==
    /\ snd = << >>
    /\ rels = << >>
    /\ kvs = << >>
    /\ mpc = "idle"
    /\ listed = << >>
    /\ given = << >>
    /\ found = << >>

Init == DbFresh /\ Built /\ NoTuple /\ NoMeta

\* ------------------------------------------------------------ Db::build
\* Mutant of manifest_check: the recorded version is not compared.
manifest_check_any(m) == "engine"

\* assert_eq!(existing.storage_version, CURRENT_STORAGE_VERSION): where build goes.
manifest_check(m) == IF m = CURRENT_STORAGE_VERSION THEN "engine" ELSE "panic"

\* Mutant of manifest_exists: the manifest is taken to be missing.
manifest_exists_never(m) == FALSE

\* manifest_path.exists()
manifest_exists(m) == m # NoManifest

\* db_builder.create_if_missing(is_new)...build(): the engine opens an existing
\* store, and creates a missing one only if told to.
engine_opens(exists, create_if_missing) == exists \/ create_if_missing

\* A call of build is under way.
Building == bpc \in {"manifest", "engine", "load"}

\* Db::build is called; fs::create_dir_all(path) succeeds.
BuildStart ==
    /\ ~Building
    /\ n_opens < MaxOpens
    /\ n_opens' = n_opens + 1
    /\ bpc' = "manifest"
    /\ is_new' = FALSE
    /\ engine' = FALSE
    /\ transacted' = FALSE
    /\ UNCHANGED <<manifest, store, manifest_writes, dvars, cvars, mvars>>

\* Db::build is called; fs::create_dir_all(path) fails: Err(BadDbInit).
BuildDirFail ==
    /\ ~Building
    /\ n_opens < MaxOpens
    /\ n_opens' = n_opens + 1
    /\ bpc' = "err"
    /\ is_new' = FALSE
    /\ engine' = FALSE
    /\ transacted' = FALSE
    /\ UNCHANGED <<manifest, store, manifest_writes, dvars, cvars, mvars>>

\* The manifest exists: it is read, parsed and its version compared.
ManifestFound ==
    /\ bpc = "manifest"
    /\ manifest_exists(manifest)
    /\ bpc' = manifest_check(manifest)
    /\ is_new' = FALSE
    /\ UNCHANGED <<manifest, manifest_writes, store, engine, transacted, n_opens, dvars, cvars, mvars>>

\* The manifest exists but fs::read fails: expect("reading manifest failed").
ManifestReadFail ==
    /\ bpc = "manifest"
    /\ manifest_exists(manifest)
    /\ bpc' = "panic"
    /\ UNCHANGED <<manifest, store, is_new, engine, transacted, n_opens,
                   manifest_writes, dvars, cvars, mvars>>

\* No manifest: fs::write stores one with the current version.
ManifestWrite ==
    /\ bpc = "manifest"
    /\ ~manifest_exists(manifest)
    /\ manifest' = CURRENT_STORAGE_VERSION
    /\ manifest_writes' = manifest_writes + 1
    /\ is_new' = TRUE
    /\ bpc' = "engine"
    /\ UNCHANGED <<store, engine, transacted, n_opens, dvars, cvars, mvars>>

\* No manifest and fs::write cannot create the file:
\* expect("Writing to manifest failed").
ManifestWriteFail ==
    /\ bpc = "manifest"
    /\ ~manifest_exists(manifest)
    /\ bpc' = "panic"
    /\ UNCHANGED <<manifest, store, is_new, engine, transacted, n_opens,
                   manifest_writes, dvars, cvars, mvars>>

\* db_builder.build() opens the storage engine, or fails for want of a store.
EngineBuild ==
    /\ bpc = "engine"
    /\ IF engine_opens(store, is_new)
       THEN /\ store' = TRUE
            /\ engine' = TRUE
            /\ bpc' = "load"
       ELSE /\ bpc' = "err"
            /\ UNCHANGED <<store, engine>>
    /\ UNCHANGED <<manifest, is_new, transacted, n_opens, manifest_writes, dvars, cvars, mvars>>

\* db_builder.build() fails in the storage engine (I/O, lock held).
EngineFail ==
    /\ bpc = "engine"
    /\ bpc' = "err"
    /\ UNCHANGED <<manifest, store, is_new, engine, transacted, n_opens,
                   manifest_writes, dvars, cvars, mvars>>

\* ret.load_last_ids() reads the last relation id in a transaction; Ok(ret).
LoadLastIds ==
    /\ bpc = "load"
    /\ transacted' = TRUE
    /\ bpc' = "ok"
    /\ UNCHANGED <<manifest, store, is_new, engine, n_opens, manifest_writes, dvars, cvars, mvars>>

\* ret.load_last_ids() fails; ret is dropped.
LoadLastIdsFail ==
    /\ bpc = "load"
    /\ transacted' = TRUE
    /\ engine' = FALSE
    /\ bpc' = "err"
    /\ UNCHANGED <<manifest, store, is_new, n_opens, manifest_writes, dvars, cvars, mvars>>

\* The process is stopped in the middle of build.
BuildInterrupted ==
    /\ Building
    /\ bpc' = "killed"
    /\ engine' = FALSE
    /\ UNCHANGED <<manifest, store, is_new, transacted, n_opens, manifest_writes, dvars, cvars, mvars>>

\* A data directory before any open of this build: fresh, or left by a build
\* of some storage version.
InitOpen ==
    /\ DbFresh
    /\ manifest \in {NoManifest} \cup Versions
    /\ store = (manifest # NoManifest)
    /\ bpc = "none"
    /\ is_new = FALSE
    /\ engine = FALSE
    /\ transacted = FALSE
    /\ n_opens = 0
    /\ manifest_writes = 0
    /\ NoTuple
    /\ NoMeta

NextOpen ==
    \/ BuildStart
    \/ BuildDirFail
    \/ ManifestFound
    \/ ManifestReadFail
    \/ ManifestWrite
    \/ ManifestWriteFail
    \/ EngineBuild
    \/ EngineFail
    \/ LoadLastIds
    \/ LoadLastIdsFail
    \/ BuildInterrupted

SpecOpen == InitOpen /\ [][NextOpen]_vars


\* -------------------------------------------------------- do_run_script
\* parse_script returned CozoScript::Multi(ps): is_write, then the transaction.
BeginScript(s) ==
    /\ pc[s] = "idle"
    /\ \A t \in 1..(s-1) : pc[t] # "idle"
    /\ \E p \in Scripts :
        /\ n_ops + Len(p) <= MaxOps
        /\ n_ops' = n_ops + Len(p)
        /\ ps' = [ps EXCEPT ![s] = p]
        /\ is_write' = [is_write EXCEPT ![s] = \E i \in DOMAIN p : p[i].op # "None"]
    /\ tx' = [tx EXCEPT ![s] = transact_write(catalog)]
    /\ cur' = [cur EXCEPT ![s] = 1]
    /\ pc' = [pc EXCEPT ![s] = "prepare"]
    /\ UNCHANGED <<qvars, clean_ups, cleanups, err, rounds, dbvars, kill_reply, killed_at>>
    /\ UNCHANGED xvars

\* run_query with compat the outcome of existing.ensure_compatible(meta): the
\* output-mode pre-check fails; the error ends the script.
PreCheckFailWith(s, compat) ==
    /\ pc[s] = "prepare"
    /\ PreCheck(tx[s], Head(ps[s]), compat) # "ok"
    /\ err' = [err EXCEPT ![s] = PreCheck(tx[s], Head(ps[s]), compat)]
    /\ pc' = [pc EXCEPT ![s] = "failed"]
    /\ tx' = [tx EXCEPT ![s] = NoTx]
    /\ UNCHANGED <<qvars, ps, cur, is_write, clean_ups, cleanups, rounds, dbvars, kvars>>
    /\ UNCHANGED xvars

PreCheckFail(s) == \E compat \in BOOLEAN : PreCheckFailWith(s, compat)

\* run_query: normalize / stratify / magic-set rewrite / compile fails.
CompileFailWith(s, compat) ==
    /\ pc[s] = "prepare"
    /\ PreCheck(tx[s], Head(ps[s]), compat) = "ok"
    /\ err' = [err EXCEPT ![s] =
                 IF normalize_ok(tx[s], Head(ps[s])) THEN "compile" ELSE "not_found"]
    /\ pc' = [pc EXCEPT ![s] = "failed"]
    /\ tx' = [tx EXCEPT ![s] = NoTx]
    /\ UNCHANGED <<qvars, ps, cur, is_write, clean_ups, cleanups, rounds, dbvars, kvars>>
    /\ UNCHANGED xvars

CompileFail(s) == \E compat \in BOOLEAN : CompileFailWith(s, compat)

\* run_query: pre-check and compilation pass; Poison::default(), the optional
\* set_timeout, and queries_count.fetch_add(1).
\* tmo: out_opts.timeout is Some.
RegisterWith(s, compat, tmo) ==
    /\ pc[s] = "prepare"
    /\ normalize_ok(tx[s], Head(ps[s]))
    /\ PreCheck(tx[s], Head(ps[s]), compat) = "ok"
    /\ tmo => n_ops < MaxOps
    /\ n_ops' = IF tmo THEN n_ops + 1 ELSE n_ops
    /\ timer' = [timer EXCEPT ![Q(s)] = tmo]
    /\ qid' = [qid EXCEPT ![Q(s)] = queries_count]
    /\ queries_count' = fetch_add(queries_count)
    /\ pc' = [pc EXCEPT ![s] = "insert"]
    /\ UNCHANGED <<running_queries, poison, removed, svars, err, dbvars, kill_reply, killed_at>>
    /\ UNCHANGED xvars

Register(s) == \E compat, tmo \in BOOLEAN : RegisterWith(s, compat, tmo)

\* run_query: the handle is inserted under the id and the guard is made.
Insert(s) ==
    /\ pc[s] = "insert"
    /\ running_queries' = map_insert(running_queries, qid[Q(s)], Q(s))
    /\ pc' = [pc EXCEPT ![s] = "eval"]
    /\ UNCHANGED <<queries_count, poison, timer, qid, removed, svars, err, dbvars, kvars>>
    /\ UNCHANGED xvars

\* stratified_magic_evaluate: a round boundary with the flag clear, more to derive.
EvalRound(s) ==
    /\ pc[s] = "eval"
    /\ Poison_check(poison[Q(s)]) = "ok"
    /\ rounds[s] < MaxRounds
    /\ rounds' = [rounds EXCEPT ![s] = @ + 1]
    /\ UNCHANGED <<qvars, pc, ps, cur, is_write, tx, clean_ups, cleanups, err,
                   dbvars, kvars>>
    /\ UNCHANGED xvars

\* stratified_magic_evaluate: a round boundary with the flag set.
EvalKilled(s) ==
    /\ pc[s] = "eval"
    /\ Poison_check(poison[Q(s)]) # "ok"
    /\ err' = [err EXCEPT ![s] = Poison_check(poison[Q(s)])]
    /\ pc' = [pc EXCEPT ![s] = "exit"]
    /\ UNCHANGED <<qvars, svars, dbvars, kvars>>
    /\ UNCHANGED xvars

\* The fixpoint is reached with the flag clear; then the assertion, sorting and
\* the materialization into the target relation (none of which reads the flag).
\* rows: the number of result rows; a: out_opts.assertion; fail: a failure of
\* sorting ("sort") or of execute_relation ("exec"), if any; a failed assertion
\* returns before either of them is reached.
Assertions == {"None", "AssertSome", "AssertNone"}
EvalFailures == {"none", "sort", "exec"}

\* Mutant of EvalFinishGuard: the evaluation returns its result without a last
\* check of the flag.
EvalFinishGuard_unchecked(s, rows, a, fail) ==
    /\ pc[s] = "eval"
    /\ fail = "exec" => Head(ps[s]).op # "None"
    /\ assertion_result(a, rows) # "none" => fail = "none"

\* The inputs the rest of run_query can meet.
EvalFinishGuard(s, rows, a, fail) ==
    /\ pc[s] = "eval"
    /\ Poison_check(poison[Q(s)]) = "ok"
    /\ fail = "exec" => Head(ps[s]).op # "None"
    /\ assertion_result(a, rows) # "none" => fail = "none"

\* The error the rest of run_query ends with ("none": it returns Ok).
EvalFinishError(rows, a, fail) ==
    IF assertion_result(a, rows) # "none" THEN assertion_result(a, rows) ELSE fail

\* The rest of run_query ending with e: the target relation is written when
\* there is one and nothing failed.
EvalFinishEnd(s, e) ==
    /\ err' = [err EXCEPT ![s] = e]
    /\ IF e = "none" /\ Head(ps[s]).op # "None"
       THEN /\ tx' = [tx EXCEPT ![s] = execute_relation(tx[s], Head(ps[s]))]
            /\ clean_ups' = [clean_ups EXCEPT ![s] = to_clear(tx[s], Head(ps[s]))]
       ELSE UNCHANGED <<tx, clean_ups>>
    /\ pc' = [pc EXCEPT ![s] = "exit"]
    /\ UNCHANGED <<qvars, ps, cur, is_write, cleanups, rounds, dbvars, kvars>>
    /\ UNCHANGED xvars

EvalFinishWith(s, rows, a, fail) ==
    /\ EvalFinishGuard(s, rows, a, fail)
    /\ EvalFinishEnd(s, EvalFinishError(rows, a, fail))

\* The errors the rest of run_query can end with, over a result of no rows or
\* of MaxRows rows.
EvalFinishErrors(s) ==
    {EvalFinishError(x[1], x[2], x[3]) :
        x \in {y \in {0, MaxRows} \X Assertions \X EvalFailures :
                  EvalFinishGuard(s, y[1], y[2], y[3])}}

\* One step for each error the call can end with, whichever inputs lead to it.
EvalFinish(s) == \E e \in EvalFinishErrors(s) : EvalFinishEnd(s, e)

\* run_query returns: RunningQueryCleanup::drop runs, then do_run_script goes on
\* with the result (`?`, cleanups.extend, next statement or the end of the loop).
Drop(s) ==
    /\ pc[s] = "exit"
    /\ IF qid[Q(s)] \in DOMAIN running_queries
       THEN /\ running_queries' = map_remove(running_queries, qid[Q(s)])
            /\ poison' = drop_store(poison, running_queries[qid[Q(s)]])
            /\ removed' = [removed EXCEPT ![Q(s)] = @ + 1]
       ELSE UNCHANGED <<running_queries, poison, removed>>
    /\ LET cl == IF err[s] = "none" THEN cleanups[s] \o clean_ups[s] ELSE << >>
           nxt == after_query(err[s], Tail(ps[s]), is_write[s], cl)
       IN  /\ pc' = [pc EXCEPT ![s] = nxt]
           /\ cleanups' = [cleanups EXCEPT ![s] = cl]
           /\ ps' = [ps EXCEPT ![s] = IF nxt = "prepare" THEN Tail(ps[s]) ELSE << >>]
           /\ cur' = [cur EXCEPT ![s] = IF nxt = "prepare" THEN @ + 1 ELSE @]
           /\ tx' = [tx EXCEPT ![s] = IF nxt \in {"prepare", "commit"} THEN @ ELSE NoTx]
    /\ clean_ups' = [clean_ups EXCEPT ![s] = << >>]
    /\ rounds' = [rounds EXCEPT ![s] = 0]
    /\ UNCHANGED <<queries_count, timer, qid, is_write, err, dbvars, kvars>>
    /\ UNCHANGED xvars

\* tx.commit_tx() succeeds.
CommitOk(s) ==
    /\ pc[s] = "commit"
    /\ ~write_conflict(tx[s])
    /\ catalog' = commit_tx(tx[s], catalog)
    /\ committed' = [committed EXCEPT ![s] = "ok"]
    /\ pc' = [pc EXCEPT ![s] = after_commit(TRUE, cleanups[s])]
    /\ tx' = commit_seen(tx, s, catalog, commit_tx(tx[s], catalog))
    /\ UNCHANGED <<qvars, ps, cur, is_write, clean_ups, cleanups, err, rounds,
                   deleted, kvars>>
    /\ UNCHANGED xvars

\* tx.commit_tx() fails.
CommitFail(s) ==
    /\ pc[s] = "commit"
    /\ committed' = [committed EXCEPT ![s] = "failed"]
    /\ err' = [err EXCEPT ![s] = "commit"]
    /\ pc' = [pc EXCEPT ![s] = after_commit(FALSE, cleanups[s])]
    /\ tx' = [tx EXCEPT ![s] = NoTx]
    /\ UNCHANGED <<qvars, ps, cur, is_write, clean_ups, cleanups, rounds,
                   catalog, deleted, kvars>>
    /\ UNCHANGED xvars

\* One iteration of `for (lower, upper) in cleanups`: db.range_del succeeds.
RangeDelOk(s) ==
    /\ pc[s] = "cleanup"
    /\ deleted' = [deleted EXCEPT ![s] = Append(@, Head(cleanups[s]))]
    /\ cleanups' = [cleanups EXCEPT ![s] = Tail(@)]
    /\ pc' = [pc EXCEPT ![s] = IF Tail(cleanups[s]) = << >> THEN "done" ELSE "cleanup"]
    /\ UNCHANGED <<qvars, ps, cur, is_write, tx, clean_ups, err, rounds, catalog,
                   committed, kvars>>
    /\ UNCHANGED xvars

\* One iteration of `for (lower, upper) in cleanups`: db.range_del fails.
RangeDelFail(s) ==
    /\ pc[s] = "cleanup"
    /\ err' = [err EXCEPT ![s] = "range_del"]
    /\ pc' = [pc EXCEPT ![s] = "failed"]
    /\ UNCHANGED <<qvars, svars, dbvars, kvars>>
    /\ UNCHANGED xvars

\* ------------------------------------------------------ remove_relation
\* SysOp::RemoveRelation: tx.destroy_relation(name) fails, the relation is absent.
RemoveNotFound(s) ==
    /\ pc[s] = "idle"
    /\ \A t \in 1..(s-1) : pc[t] # "idle"
    /\ n_ops < MaxOps
    /\ n_ops' = n_ops + 1
    /\ \E name \in Names :
        /\ ~relation_exists(transact_write(catalog), name)
        /\ err' = [err EXCEPT ![s] = "not_found"]
    /\ pc' = [pc EXCEPT ![s] = "failed"]
    /\ UNCHANGED <<qvars, svars, dbvars, kill_reply, killed_at>>
    /\ UNCHANGED xvars

\* SysOp::RemoveRelation: transact_write and tx.destroy_relation(name).
RemoveDestroy(s) ==
    /\ pc[s] = "idle"
    /\ \A t \in 1..(s-1) : pc[t] # "idle"
    /\ n_ops < MaxOps
    /\ n_ops' = n_ops + 1
    /\ \E name \in Names :
        /\ relation_exists(transact_write(catalog), name)
        /\ tx' = [tx EXCEPT ![s] = destroy_relation(transact_write(catalog), name)]
        /\ cleanups' = [cleanups EXCEPT ![s] = <<name>>]
    /\ pc' = [pc EXCEPT ![s] = "rm_commit"]
    /\ UNCHANGED <<qvars, ps, cur, is_write, clean_ups, err, rounds, dbvars, kill_reply, killed_at>>
    /\ UNCHANGED xvars

\* remove_relation: tx.commit_tx() succeeds.
RemoveCommitOk(s) ==
    /\ pc[s] = "rm_commit"
    /\ ~write_conflict(tx[s])
    /\ catalog' = commit_tx(tx[s], catalog)
    /\ committed' = [committed EXCEPT ![s] = "ok"]
    /\ pc' = [pc EXCEPT ![s] = after_rm_commit(TRUE)]
    /\ tx' = commit_seen(tx, s, catalog, commit_tx(tx[s], catalog))
    /\ UNCHANGED <<qvars, ps, cur, is_write, clean_ups, cleanups, err, rounds,
                   deleted, kvars>>
    /\ UNCHANGED xvars

\* remove_relation: tx.commit_tx() fails.
RemoveCommitFail(s) ==
    /\ pc[s] = "rm_commit"
    /\ committed' = [committed EXCEPT ![s] = "failed"]
    /\ err' = [err EXCEPT ![s] = "commit"]
    /\ pc' = [pc EXCEPT ![s] = after_rm_commit(FALSE)]
    /\ tx' = [tx EXCEPT ![s] = NoTx]
    /\ UNCHANGED <<qvars, ps, cur, is_write, clean_ups, cleanups, rounds,
                   catalog, deleted, kvars>>
    /\ UNCHANGED xvars

\* remove_relation: db.range_del(&lower, &upper) succeeds.
RemoveRangeDelOk(s) ==
    /\ pc[s] = "rm_range_del"
    /\ deleted' = [deleted EXCEPT ![s] = Append(@, Head(cleanups[s]))]
    /\ cleanups' = [cleanups EXCEPT ![s] = << >>]
    /\ pc' = [pc EXCEPT ![s] = "done"]
    /\ UNCHANGED <<qvars, ps, cur, is_write, tx, clean_ups, err, rounds, catalog,
                   committed, kvars>>
    /\ UNCHANGED xvars

\* remove_relation: db.range_del(&lower, &upper) fails.
RemoveRangeDelFail(s) ==
    /\ pc[s] = "rm_range_del"
    /\ err' = [err EXCEPT ![s] = "range_del"]
    /\ pc' = [pc EXCEPT ![s] = "failed"]
    /\ UNCHANGED <<qvars, svars, dbvars, kvars>>
    /\ UNCHANGED xvars

\* ------------------------------------------------- cancellation sources
\* SysOp::KillRunning(id), under the registry lock.
KillRunning(id) ==
    /\ n_ops < MaxOps
    /\ n_ops' = n_ops + 1
    /\ kill_reply' = kill_status(running_queries, id)
    /\ poison' = IF id \in DOMAIN running_queries
                 THEN kill_store(poison, running_queries, id)
                 ELSE poison
    /\ killed_at' = IF id \in DOMAIN running_queries
                    THEN [killed_at EXCEPT ![running_queries[id]] = pc[running_queries[id][1]]]
                    ELSE killed_at
    /\ UNCHANGED <<queries_count, running_queries, timer, qid, removed, pc, svars, err,
                   dbvars>>
    /\ UNCHANGED xvars

\* The thread spawned by Poison::set_timeout wakes up and stores into its pill.
TimerFire(q) ==
    /\ timer[q]
    /\ timer' = [timer EXCEPT ![q] = FALSE]
    /\ poison' = timer_store(poison, q)
    /\ UNCHANGED <<queries_count, running_queries, qid, removed, pc, svars, err, dbvars,
                   kvars>>
    /\ UNCHANGED xvars

\* A session inside do_run_script (CozoScript::Multi).
ScriptStep(s) ==
    \/ BeginScript(s)
    \/ PreCheckFail(s)
    \/ CompileFail(s)
    \/ Register(s)
    \/ Insert(s)
    \/ EvalRound(s)
    \/ EvalKilled(s)
    \/ EvalFinish(s)
    \/ Drop(s)
    \/ CommitOk(s)
    \/ CommitFail(s)
    \/ RangeDelOk(s)
    \/ RangeDelFail(s)

\* A session inside remove_relation (SysOp::RemoveRelation).
RemoveStep(s) ==
    \/ RemoveNotFound(s)
    \/ RemoveDestroy(s)
    \/ RemoveCommitOk(s)
    \/ RemoveCommitFail(s)
    \/ RemoveRangeDelOk(s)
    \/ RemoveRangeDelFail(s)

SessionStep(s) == ScriptStep(s) \/ RemoveStep(s)

Next ==
    \/ \E s \in Sessions : SessionStep(s)
    \/ \E id \in Ids : KillRunning(id)
    \/ \E q \in Queries : TimerFire(q)

Spec == Init /\ [][Next]_vars

\* The timeout threads of the queries of one script, with every way their flags
\* are touched: the script's own run_query calls and KillRunning.  The thread
\* spawned by set_timeout is an OS thread that sleeps and then stores: it is
\* scheduled eventually.  Nothing is assumed about the session or the administrator.
NextTimer ==
    \/ ScriptStep(1)
    \/ \E id \in Ids : KillRunning(id)
    \/ \E q \in Queries : TimerFire(q)

SpecTimer ==
    Init /\ [][NextTimer]_vars /\ \A q \in Queries : WF_vars(TimerFire(q))

\* ------------------------------------------- encoding, decoding, iterating
\* tup.encode_as_key(pfx); the bytes become an EncodedTuple.
Encode ==
    /\ cpc = "input"
    /\ slice' = encode_as_key(tup, pfx)
    /\ cpc' = "encoded"
    /\ UNCHANGED <<tup, pfx, other, idx, res, ord, size, pos, items, dvars, bvars, mvars>>

\* The bytes read back are cut short (a truncated key).
Truncate ==
    /\ cpc = "encoded"
    /\ \E n \in 0..(Len(slice) - 1) : slice' = SubSeq(slice, 1, n)
    /\ cpc' = "cut"
    /\ UNCHANGED <<tup, pfx, other, idx, res, ord, size, pos, items, dvars, bvars, mvars>>

\* The bytes read back differ from the bytes written in one byte of the offset
\* table or of the values (a damaged key): a zero, or 0xc1, which MessagePack
\* never uses; the prefix and the arity are intact.
DamageBytes == {0, 193}
Damage ==
    /\ cpc = "encoded"
    /\ \E k \in 9..Len(slice), x \in DamageBytes :
          /\ slice[k] # x
          /\ slice' = [slice EXCEPT ![k] = x]
    /\ cpc' = "cut"
    /\ UNCHANGED <<tup, pfx, other, idx, res, ord, size, pos, items, dvars, bvars, mvars>>

\* EncodedTuple::get(i) on the encoding.
GetAt(i) ==
    /\ cpc = "encoded"
    /\ idx' = i
    /\ res' = get(slice, i)
    /\ cpc' = "got"
    /\ UNCHANGED <<tup, pfx, slice, other, ord, size, pos, items, dvars, bvars, mvars>>

\* The encoding is compared bytewise with that of another tuple, same prefix;
\* ord is the sign of the byte comparison.
CompareWith(b) ==
    /\ cpc = "encoded"
    /\ other' = b
    /\ ord' = byte_compare(slice, encode_as_key(b, pfx))
    /\ cpc' = "compared"
    /\ UNCHANGED <<tup, pfx, slice, idx, res, size, pos, items, dvars, bvars, mvars>>

\* EncodedTuple::iter
IterStart ==
    /\ cpc \in {"encoded", "cut"}
    /\ size' = 0
    /\ pos' = 0
    /\ items' = << >>
    /\ cpc' = IF cpc = "encoded" THEN "iter" ELSE "iter_cut"
    /\ UNCHANGED <<tup, pfx, slice, other, idx, res, ord, dvars, bvars, mvars>>

\* What one call of next() returns ("None" for None) and the iterator after it.
next_size(b, sz) == IF sz = 0 /\ arity(b).ok THEN arity(b).v ELSE sz

\* Mutant of next_item: the iteration ends at the first failing item.
next_item_stops(b, sz, p) ==
    IF sz = 0 /\ ~arity(b).ok THEN arity(b)
    ELSE IF p = next_size(b, sz) \/ ~get(b, p).ok THEN Err("None")
    ELSE get(b, p)

\* The item one call of next() returns.
next_item(b, sz, p) ==
    IF sz = 0 /\ ~arity(b).ok THEN arity(b)
    ELSE IF p = next_size(b, sz) THEN Err("None")
    ELSE get(b, p)

\* The position after one call of next().
next_pos(b, sz, p) ==
    IF (sz = 0 /\ ~arity(b).ok) \/ p = next_size(b, sz) THEN p ELSE p + 1

\* EncodedTupleIter::next; items keeps the first MaxArity + 1 items returned.
IterNext ==
    /\ cpc \in {"iter", "iter_cut"}
    /\ size' = next_size(slice, size)
    /\ pos' = next_pos(slice, size, pos)
    /\ IF next_item(slice, size, pos).e = "None"
       THEN /\ cpc' = IF cpc = "iter" THEN "iterated" ELSE "iterated_cut"
            /\ UNCHANGED items
       ELSE /\ items' = IF Len(items) <= MaxArity
                        THEN Append(items, next_item(slice, size, pos))
                        ELSE items
            /\ UNCHANGED cpc
    /\ UNCHANGED <<tup, pfx, slice, other, idx, res, ord, dvars, bvars, mvars>>

\* A tuple and a prefix to encode.
InitCodec ==
    /\ DbFresh
    /\ Built
    /\ cpc = "input"
    /\ tup \in Tuples
    /\ pfx \in Prefixes
    /\ slice = << >>
    /\ other = << >>
    /\ idx = 0
    /\ res = Err("none")
    /\ ord = 0
    /\ size = 0
    /\ pos = 0
    /\ items = << >>
    /\ NoMeta

NextCodec ==
    \/ Encode
    \/ Truncate
    \/ Damage
    \/ \E i \in 0..(MaxArity + 1) : GetAt(i)
    \/ \E b \in Tuples : CompareWith(b)
    \/ IterStart
    \/ IterNext

SpecCodec == InitCodec /\ [][NextCodec]_vars

\* next() is called again and again.
SpecIter == SpecCodec /\ WF_vars(IterNext)

\* ------------------------------------------- the system key space (Snd)
MaxCols == 2            \* key columns of a relation; columns in all: MaxCols + 1

\* Relation names "A" and "B"; components of meta key paths "a" and "b".
RelNames == {<<65>>, <<66>>}
MetaPaths == {<<(<<97>>)>>, <<(<<97>>), (<<98>>)>>, <<(<<98>>)>>}
ScanPrefixes == {<< >>, <<(<<97>>)>>, <<(<<98>>)>>}
MetaVals == {<<1>>, <<2>>}

\* metadata.keys.len() and metadata.dependents.len() of a stored relation.
Shapes == {sh \in [keys : 1..MaxCols, deps : 0..MaxCols] : sh.keys + sh.deps <= MaxCols + 1}

\* LARGEST_UTF_CHAR, U+10FFFF in UTF-8.
LARGEST_UTF_CHAR == <<244, 143, 191, 191>>

\* A value of the column family: the bytes of a serialized RelationHandle, or
\* the bytes given to put_meta_kv.
StoredHandle(name, sh) == [kind |-> "handle", name |-> name, keys |-> sh.keys,
                           deps |-> sh.deps, raw |-> << >>]
StoredBytes(v) == [kind |-> "bytes", name |-> << >>, keys |-> 0, deps |-> 0, raw |-> v]

\* RelationHandle::decode(v_slice)
RelationHandle_decode(v) == IF v.kind = "handle" THEN Ok(v) ELSE Err("decode")

\* The key of a relation's catalog entry: Tuple(vec![DataValue::Str(name)]).
catalog_key(name) == <<Str(name)>>

\* put_meta_kv / remove_meta_kv / get_meta_kv: ks = [Guard, Str(k[0]), ...].
meta_key(k) == <<Guard>> \o [i \in 1..Len(k) |-> Str(k[i])]

\* vtx.put(&key, v, Snd) and vtx.del(&key, Snd), committed.
kv_put(m, k, v) == [x \in (DOMAIN m) \cup {k} |-> IF x = k THEN v ELSE m[x]]
kv_del(m, k) == [x \in (DOMAIN m) \ {k} |-> m[x]]

\* The keys of a set in the order of the column family's comparator.
RECURSIVE sorted_keys(_)
sorted_keys(S) ==
    IF S = {} THEN << >>
    ELSE LET k == CHOOSE x \in S : \A o \in S : tuple_compare(x, o) <= 0
         IN  <<k>> \o sorted_keys(S \ {k})

\* iterator(Snd).upper_bound(&upper).start(), it.seek(&lower), then pair()/next()
\* while compare_tuple_keys(&upper, k_slice) is Greater.
scan_keys(m, lower, upper) ==
    sorted_keys({k \in DOMAIN m : tuple_compare(k, lower) >= 0 /\ tuple_compare(upper, k) = 1})

\* Mutant of relation_row: the arity counts the key columns only.
relation_row_keys_only(h) == <<h.name, h.keys, h.keys, h.deps>>

\* list_relations: json!([name, arity, n_keys, n_dependents])
relation_row(h) == <<h.name, h.keys + h.deps, h.keys, h.deps>>

\* list_relations: the rows collected, in the iterator's order.
list_relations(m) ==
    LET ks == scan_keys(m, <<Str(<< >>)>>, <<Str(LARGEST_UTF_CHAR)>>)
    IN  [i \in 1..Len(ks) |-> relation_row(RelationHandle_decode(m[ks[i]]).v)]

\* CustomIter::next_inner on one pair: the key decoded, its first value skipped,
\* every other value a string or CorruptKeyInMetaStoreError; the value as it is.
scan_item(k, v) ==
    IF \A i \in 2..Len(k) : k[i].t = "Str"
    THEN [ok |-> TRUE, ks |-> [i \in 1..(Len(k) - 1) |-> k[i + 1].s], v |-> v]
    ELSE [ok |-> FALSE, ks |-> << >>, v |-> v]

\* meta_range_scan: the items the iterator yields, from [Guard] + prefix up to [Bot].
meta_range_scan(m, pre) ==
    LET ks == scan_keys(m, meta_key(pre), <<Bot>>)
    IN  [i \in 1..Len(ks) |-> scan_item(ks[i], m[ks[i]])]

\* What a call that writes leaves of the earlier answers.
Forgotten ==
    /\ mpc' = "idle"
    /\ listed' = << >>
    /\ given' = << >>
    /\ found' = << >>

\* SessionTx::create_relation: a handle is stored under the relation's name.
CreateRelationEntry ==
    \E name \in RelNames, sh \in Shapes :
        /\ name \notin DOMAIN rels
        /\ snd' = kv_put(snd, catalog_key(name), StoredHandle(name, sh))
        /\ rels' = kv_put(rels, name, sh)
        /\ Forgotten
        /\ UNCHANGED <<kvs, dvars, bvars, cvars>>

\* remove_relation: tx.destroy_relation(name) deletes the handle; committed.
DestroyRelationEntry ==
    \E name \in DOMAIN rels :
        /\ snd' = kv_del(snd, catalog_key(name))
        /\ rels' = kv_del(rels, name)
        /\ Forgotten
        /\ UNCHANGED <<kvs, dvars, bvars, cvars>>

\* SysOp::RenameRelation: tx.rename_relation(old, new) moves the handle to the
\* new name; committed.
RenameRelationEntry ==
    \E old \in DOMAIN rels, new \in RelNames \ DOMAIN rels :
        /\ snd' = kv_put(kv_del(snd, catalog_key(old)), catalog_key(new),
                         StoredHandle(new, rels[old]))
        /\ rels' = kv_put(kv_del(rels, old), new, rels[old])
        /\ Forgotten
        /\ UNCHANGED <<kvs, dvars, bvars, cvars>>

\* put_meta_kv(k, v)
PutMetaKv ==
    \E k \in MetaPaths, v \in MetaVals :
        /\ snd' = kv_put(snd, meta_key(k), StoredBytes(v))
        /\ kvs' = kv_put(kvs, k, v)
        /\ Forgotten
        /\ UNCHANGED <<rels, dvars, bvars, cvars>>

\* remove_meta_kv(k)
RemoveMetaKv ==
    \E k \in MetaPaths :
        /\ snd' = kv_del(snd, meta_key(k))
        /\ kvs' = kv_del(kvs, k)
        /\ Forgotten
        /\ UNCHANGED <<rels, dvars, bvars, cvars>>

\* SysOp::ListRelations
ListRelations ==
    /\ listed' = list_relations(snd)
    /\ mpc' = "listed"
    /\ given' = << >>
    /\ found' = << >>
    /\ UNCHANGED <<snd, rels, kvs, dvars, bvars, cvars>>

\* meta_range_scan(prefix), iterated to its end.
MetaRangeScan ==
    \E pre \in ScanPrefixes :
        /\ found' = meta_range_scan(snd, pre)
        /\ given' = pre
        /\ mpc' = "scanned"
        /\ listed' = << >>
        /\ UNCHANGED <<snd, rels, kvs, dvars, bvars, cvars>>

NextMeta ==
    \/ CreateRelationEntry
    \/ DestroyRelationEntry
    \/ RenameRelationEntry
    \/ PutMetaKv
    \/ RemoveMetaKv
    \/ ListRelations
    \/ MetaRangeScan

SpecMeta == Init /\ [][NextMeta]_vars

\* ------------------------------------------------------------ properties
\* The query has its id and its run_query call has not returned yet.
InFlight(q) == q = Q(q[1]) /\ pc[q[1]] \in {"insert", "eval", "exit"}

\* The query is between the insertion into the registry and the guard's drop.
Running(q) == q = Q(q[1]) /\ pc[q[1]] \in {"eval", "exit"}

\* run_query registered the query and has returned.
Exited(q) == qid[q] # NoId /\ ~InFlight(q)

\* Errors with which a statement (run_query) fails.
StatementErrors ==
    {"conflict", "not_found", "incompatible", "compile", "killed",
     "assert_none_failure", "assert_some_failure", "sort", "exec"}

\* C1: once run_query has registered a query, every exit of run_query (normal or
\* with an error, cancellation included) has removed the query's registry entry
\* exactly once and leaves its poison flag true.
C1_GuardCleansUp ==
    \A q \in Queries :
        /\ removed[q] <= 1
        /\ Running(q) => removed[q] = 0
        /\ Exited(q) => /\ removed[q] = 1
                        /\ qid[q] \notin DOMAIN running_queries
                        /\ poison[q]

\* C1 witness: a registered query has left run_query by cancellation.
C1_Witness ==
    \E q \in Queries : Exited(q) /\ err[q[1]] = "killed" /\ removed[q] = 1

\* C2: a step of an evaluation whose flag is set ends it with the "process killed"
\* error at that round boundary; with the flag clear it never does; and the check
\* leaves the flag as it was.
C2_KilledAtRoundBoundary ==
    [][\A s \in Sessions :
         (pc[s] = "eval" /\ (pc'[s] # "eval" \/ rounds'[s] # rounds[s])) =>
            /\ poison'[Q(s)] = poison[Q(s)]
            /\ poison[Q(s)] => (pc'[s] = "exit" /\ err'[s] = "killed")
            /\ ~poison[Q(s)] => err'[s] # "killed"]_vars

\* C2 witness: the flag was set while the fixpoint was running (after a round) and
\* the evaluation ended with "process killed".
C2_Witness ==
    \E s \in Sessions : pc[s] = "exit" /\ err[s] = "killed" /\ rounds[s] > 0

\* C3: a poison flag that is true stays true in every step.
C3_PoisonOneWay == [][\A q \in Queries : poison[q] => poison'[q]]_vars

\* C3 witness: a flag set by KillRunning has since gone through the guard's drop.
C3_Witness ==
    \E q \in Queries : Exited(q) /\ poison[q] /\ kill_reply = "KILLING"

\* C4: KillRunning(id) with id registered sets the flag of the query that got id and
\* no other flag and replies KILLING; with id not registered it changes no flag and
\* replies NOT_FOUND; the registry is unchanged in both cases.
C4_KillRunning ==
    [][\A id \in Ids :
         KillRunning(id) =>
            /\ running_queries' = running_queries
            /\ IF id \in DOMAIN running_queries
               THEN /\ kill_reply' = "KILLING"
                    /\ \A q \in Queries : poison'[q] = (poison[q] \/ qid[q] = id)
               ELSE /\ kill_reply' = "NOT_FOUND"
                    /\ poison' = poison]_vars

\* C4 witness: a running query was killed by id and its flag is set.
C4_Witness ==
    \E q \in Queries : Running(q) /\ poison[q] /\ kill_reply = "KILLING"

\* C5: the ids handed out are pairwise different and below the counter (so each new
\* id exceeds all earlier ones), and an insertion never finds its id in the registry.
C5_FreshIds ==
    /\ \A q1, q2 \in Queries :
          (q1 # q2 /\ qid[q1] # NoId /\ qid[q2] # NoId) => qid[q1] # qid[q2]
    /\ \A q \in Queries : qid[q] < queries_count
    /\ \A s \in Sessions : pc[s] = "insert" => qid[Q(s)] \notin DOMAIN running_queries

\* C5 witness: two sessions hold their ids at the same time, both before insertion.
C5_Witness ==
    \E s1, s2 \in Sessions : s1 # s2 /\ pc[s1] = "insert" /\ pc[s2] = "insert"

\* C6: once the timeout thread of a query is started, the query's flag eventually
\* becomes true (the thread is scheduled fairly), whatever the query does.
C6_TimeoutSetsFlag == \A q \in Queries : timer[q] ~> poison[q]

\* C6 witness: a timeout thread is asleep while its query evaluates, flag clear.
C6_Witness ==
    \E q \in Queries : timer[q] /\ Running(q) /\ ~poison[q] /\ pc[q[1]] = "eval"

\* C7: a timeout thread that fires after its query left run_query changes neither the
\* registry nor any other query's flag, error, position or commit outcome, nor the
\* store.
C7_LateTimerHarmless ==
    [][\A q \in Queries :
         (TimerFire(q) /\ Exited(q)) =>
            /\ \A q2 \in Queries : q2 # q => poison'[q2] = poison[q2]
            /\ UNCHANGED <<running_queries, qid, pc, err, tx, committed, catalog,
                           deleted>>]_vars

\* C7 witness: the query has returned and its script is done, the thread still asleep.
C7_Witness ==
    \E q \in Queries : timer[q] /\ Exited(q) /\ pc[q[1]] \in {"done", "failed"}

\* C8: a session performs (or is about to perform) a range delete only after its
\* commit succeeded; after a failed commit it has deleted nothing.
C8_RangeDelAfterCommit ==
    \A s \in Sessions :
        (deleted[s] # << >> \/ pc[s] \in {"cleanup", "rm_range_del"})
            => committed[s] = "ok"

\* C8 witness: a write script has range-deleted a stale range.
C8_Witness == \E s \in Sessions : deleted[s] # << >> /\ is_write[s]

\* C9: once a statement has failed, its script stops with that error: no commit, no
\* range delete, and no later statement of the script is started.
C9_FailedStatementAborts ==
    \A s \in Sessions :
        /\ err[s] \in StatementErrors =>
              /\ pc[s] \in {"exit", "failed"}
              /\ committed[s] = "no"
              /\ deleted[s] = << >>
              /\ \A i \in 1..MaxStmts : i > cur[s] => qid[<<s, i>>] = NoId
        /\ pc[s] = "failed" => err[s] # "none"

\* C9 witness: the second statement of a write script failed after the first ran.
C9_Witness ==
    \E s \in Sessions :
        /\ pc[s] = "failed" /\ err[s] \in StatementErrors
        /\ cur[s] = 2 /\ is_write[s] /\ Exited(<<s, 1>>)

\* C10: a CREATE statement whose name exists in the transaction's view fails with the
\* conflict error in its first step: no id, no registry entry, no timer, no
\* evaluation, and the stored catalog stays as it is.
C10_CreateConflict ==
    [][\A s \in Sessions :
         (/\ pc[s] = "prepare"
          /\ pc'[s] # "prepare"
          /\ Head(ps[s]).op = "Create"
          /\ Head(ps[s]).name \in tx[s].cat) =>
            /\ pc'[s] = "failed"
            /\ err'[s] = "conflict"
            /\ UNCHANGED <<queries_count, running_queries, poison, timer, qid, catalog,
                           committed, deleted>>]_vars

\* C10 witness: the conflict is with a relation created by the script's first statement.
C10_Witness ==
    \E s \in Sessions :
        pc[s] = "failed" /\ err[s] = "conflict" /\ cur[s] = 2 /\ catalog = {}

\* A step of run_query's head (pre-check, compilation, registration) taken with
\* compat as the outcome of ensure_compatible.
HeadStepWith(s, compat) ==
    \/ PreCheckFailWith(s, compat)
    \/ CompileFailWith(s, compat)
    \/ \E tmo \in BOOLEAN : RegisterWith(s, compat, tmo)

\* The statement fails in run_query's head: nothing registered, nothing written.
FailsUnregistered(s, e) ==
    /\ pc'[s] = "failed"
    /\ err'[s] = e
    /\ tx'[s].wrote \subseteq tx[s].wrote
    /\ UNCHANGED <<queries_count, running_queries, poison, timer, qid, catalog,
                   committed, deleted>>

\* C11: a statement whose mode is neither CREATE nor RE-DERIVE and whose target is
\* absent from the transaction's view fails with relation-not-found in its first
\* step: no id, no registry entry, no evaluation, nothing written.
C11_PutAbsentNotFound ==
    [][\A s \in Sessions :
         (/\ pc[s] = "prepare"
          /\ pc'[s] # "prepare"
          /\ Head(ps[s]).op \notin {"None", "Create", "ReDerive"}
          /\ Head(ps[s]).name \notin tx[s].cat) =>
            FailsUnregistered(s, "not_found")]_vars

\* C11 witness: a PUT into an absent relation has failed with relation-not-found.
C11_Witness ==
    \E s \in Sessions :
        /\ pc[s] = "failed" /\ err[s] = "not_found" /\ ps[s] # << >>
        /\ Head(ps[s]).op = "Put" /\ qid[Q(s)] = NoId

\* C12: a RE-DERIVE statement whose target is absent fails unregistered with an
\* error, and a RE-DERIVE statement never fails with schema-incompatible, whatever
\* ensure_compatible would say: with the target present it can be registered even
\* with an incompatible head.
C12_ReDeriveChecks ==
    [][\A s \in Sessions :
         (/\ pc[s] = "prepare"
          /\ pc'[s] # "prepare"
          /\ Head(ps[s]).op = "ReDerive") =>
            /\ err'[s] # "incompatible"
            /\ Head(ps[s]).name \notin tx[s].cat => FailsUnregistered(s, "not_found")
            /\ Head(ps[s]).name \in tx[s].cat =>
                  \A compat \in BOOLEAN : ~PreCheckFailWith(s, compat)]_vars

\* C12 witness: a RE-DERIVE statement on a present relation has been registered.
C12_Witness ==
    \E s \in Sessions :
        /\ pc[s] \in {"insert", "eval"}
        /\ Head(ps[s]).op = "ReDerive" /\ Head(ps[s]).name \in tx[s].cat

\* C13: a statement whose mode is neither CREATE nor RE-DERIVE, whose target exists
\* and whose head ensure_compatible rejects fails with schema-incompatible in its
\* first step: no id, no registry entry, no evaluation, nothing written.
C13_IncompatibleBeforeWrites ==
    [][\A s \in Sessions :
         (/\ pc[s] = "prepare"
          /\ Head(ps[s]).op \notin {"None", "Create", "ReDerive"}
          /\ Head(ps[s]).name \in tx[s].cat
          /\ HeadStepWith(s, FALSE)) =>
            FailsUnregistered(s, "incompatible")]_vars

\* C13 witness: a PUT with an incompatible head has failed, never registered.
C13_Witness ==
    \E s \in Sessions :
        /\ pc[s] = "failed" /\ err[s] = "incompatible"
        /\ Head(ps[s]).op = "Put" /\ qid[Q(s)] = NoId

\* C14: AssertSome fails (assert_some_failure) exactly when the result has no row,
\* AssertNone fails (assert_none_failure) exactly when it has a row, and a failed
\* assertion leaves the transaction and the pending range deletes as they were;
\* AssertSome on a result with rows and no later failure succeeds.
\* (Each implication is written conclusion first, as a disjunction.)
C14_Assertions ==
    [][\A s \in Sessions :
         (pc[s] = "eval" /\ pc'[s] = "exit") =>
           \A rows \in 0..MaxRows, a \in Assertions :
             /\ \/ /\ err'[s] = "assert_some_failure" <=> (a = "AssertSome" /\ rows = 0)
                   /\ err'[s] = "assert_none_failure" <=> (a = "AssertNone" /\ rows > 0)
                   /\ err'[s] \in {"assert_some_failure", "assert_none_failure"} =>
                         UNCHANGED <<tx, clean_ups, cleanups, catalog, deleted>>
                \/ ~\E fail \in EvalFailures : EvalFinishWith(s, rows, a, fail)
             /\ \/ err'[s] = "none"
                \/ ~(a = "AssertSome" /\ rows > 0)
                \/ ~EvalFinishWith(s, rows, a, "none")]_vars

\* C14 witness: AssertSome failed on an empty result of a statement with a target.
C14_Witness ==
    \E s \in Sessions :
        /\ pc[s] = "exit" /\ err[s] = "assert_some_failure"
        /\ Head(ps[s]).op # "None" /\ tx[s].wrote = {}

\* C15: while the manifest records a storage version other than the current one,
\* no step of an open gets past the version check: the storage engine is not
\* opened, no transaction is started, no Db is returned, and the manifest stays
\* as it is.
C15_VersionMismatchFatal ==
    [][(manifest_exists(manifest) /\ manifest # CURRENT_STORAGE_VERSION) =>
          /\ manifest' = manifest
          /\ bpc' \notin {"engine", "load", "ok"}
          /\ ~engine' /\ ~transacted']_vars

\* C15 witness: an open of a directory with a version-2 manifest has panicked.
C15_Witness ==
    /\ manifest_exists(manifest) /\ manifest # CURRENT_STORAGE_VERSION
    /\ bpc = "panic" /\ n_opens > 0

\* C16: a step changes or writes the manifest only in an open that found none, and
\* then the manifest records the current version; the manifest is written at most
\* once over all opens of the directory.
C16_ManifestWrittenOnce ==
    [][/\ (manifest' # manifest \/ manifest_writes' # manifest_writes) =>
             /\ ~manifest_exists(manifest)
             /\ bpc = "manifest"
             /\ manifest' = CURRENT_STORAGE_VERSION
       /\ manifest_writes' <= 1]_vars

\* C16 witness: the first open wrote the manifest and a later open, having found
\* it, has returned a Db.
C16_Witness ==
    manifest_writes = 1 /\ n_opens > 1 /\ bpc = "ok" /\ ~is_new

\* ------------------------------------------------------------ tuple codec
\* C17: codec round trip. For every tuple of every arity, the empty one
\* included, and every prefix, the bytes of encode_as_key give back the prefix,
\* the arity and each value by get, and iteration yields exactly the values
\* in order.
C17_RoundTrip ==
    /\ cpc = "encoded" =>
         /\ prefix(slice).ok /\ prefix(slice).v = pfx
         /\ arity(slice).ok /\ arity(slice).v = Len(tup)
         /\ \A i \in 0..(Len(tup) - 1) :
                get(slice, i).ok /\ get(slice, i).v = tup[i + 1]
    /\ cpc = "iterated" =>
         /\ Len(items) = Len(tup)
         /\ \A i \in 1..Len(items) : items[i].ok /\ items[i].v = tup[i]

\* C18: order preservation. For two tuples encoded with the same prefix, the
\* bytewise comparison of the encodings has the sign of the value-by-value
\* comparison of the tuples.
C18_OrderPreserved ==
    cpc = "compared" => ord = tuple_compare(tup, other)

\* C19: get(idx) with idx at or past the arity of the encoded tuple fails and
\* never returns a value.
C19_GetPastArityFails ==
    (cpc = "got" /\ idx >= Len(tup)) => ~res.ok

\* C20: iteration over any slice, whole or cut short, is finite: next()
\* returns None after finitely many calls.
C20_IterationEnds ==
    (cpc \in {"iter", "iter_cut"}) ~> (cpc \in {"iterated", "iterated_cut"})

\* The positions below the arity whose field get cannot return.
BadFields == {i \in 0..(Len(tup) - 1) : ~get(slice, i).ok}

\* C21: iteration fails per item. Over a key with intact header in which the
\* field at exactly one position k is corrupt, the iteration that has ended has
\* yielded as many items as the arity, a failing item at k and an Ok item at
\* every other position.
C21_FailsPerItem ==
    (/\ cpc = "iterated_cut"
     /\ arity(slice).ok /\ arity(slice).v = Len(tup)
     /\ Cardinality(BadFields) = 1) =>
        /\ Len(items) = Len(tup)
        /\ \A i \in 1..Len(items) : items[i].ok <=> (i - 1) \notin BadFields

\* C21 witness: the first field of a 2-tuple is corrupt; the iteration went on
\* and yielded the second.
C21_Witness ==
    /\ cpc = "iterated_cut"
    /\ Len(tup) = 2 /\ arity(slice).ok /\ arity(slice).v = 2
    /\ BadFields = {0}
    /\ Len(items) = 2 /\ ~items[1].ok /\ items[2].ok /\ items[2].v = tup[2]

\* C22: key layout. For every arity n >= 0 the key is the 4-byte big-endian
\* prefix, the 4-byte big-endian arity, the offset table and the values: the
\* first value starts right after the table at 4 * (n + 1), the entry of each
\* value i in 1..n-1 is the position where value i starts, each value follows
\* the one before it, and the positions increase and lie inside the key.
C22_KeyLayout ==
    cpc = "encoded" =>
        LET n == Len(tup)
            at[i \in 0..(n - 1)] ==
                IF i = 0 THEN 4 * (n + 1) ELSE from_be_bytes(slice, 4 * (i + 1))
            end[i \in 0..(n - 1)] == at[i] + Len(serialize(tup[i + 1]))
        IN  /\ Len(slice) >= 8
            /\ SubSeq(slice, 1, 4) = to_be_bytes(pfx)
            /\ SubSeq(slice, 5, 8) = to_be_bytes(n)
            /\ \A i \in 0..(n - 1) :
                  /\ at[i] < Len(slice)
                  /\ SubSeq(slice, at[i] + 1, end[i]) = serialize(tup[i + 1])
                  /\ i > 0 => (at[i - 1] < at[i] /\ at[i] = end[i - 1])
            /\ Len(slice) = IF n = 0 THEN 8 ELSE end[n - 1]

\* ------------------------------------------------------ registry, scripts
\* C25: the keys of the registry are exactly the ids of the queries between
\* their registration and the exit of run_query, each key leading to the query
\* that got it; a statement that failed before registration has no id and no
\* entry, and with no query executing the registry is empty.
C25_RegistryExact ==
    /\ DOMAIN running_queries = {qid[q] : q \in {r \in Queries : Running(r)}}
    /\ \A id \in DOMAIN running_queries :
          Running(running_queries[id]) /\ qid[running_queries[id]] = id
    /\ \A s \in Sessions :
          (pc[s] = "failed" /\ err[s] \in {"conflict", "not_found", "incompatible", "compile"})
              => (qid[Q(s)] = NoId /\ \A id \in DOMAIN running_queries :
                                         running_queries[id] # Q(s))
    /\ (\A s \in Sessions : pc[s] \notin {"eval", "exit"}) => DOMAIN running_queries = {}

\* C25 witness: the registry holds exactly the query of one session while the
\* statement of another has failed in compilation, unregistered.
C25_Witness ==
    \E s1, s2 \in Sessions :
        /\ pc[s1] = "eval" /\ DOMAIN running_queries = {qid[Q(s1)]}
        /\ pc[s2] = "failed" /\ err[s2] = "compile" /\ qid[Q(s2)] = NoId

\* C26: a script without a storing statement never commits and never range
\* deletes, and its list of cleanups stays empty (the assertion on read-only
\* transactions cannot fire); a script with a storing statement calls commit_tx
\* once, after its last statement has run without error, and ends well only
\* with its transaction committed.
C26_CommitOnlyWriteScripts ==
    [][\A s \in Sessions :
         /\ (pc[s] \in {"prepare", "insert", "eval", "exit", "commit", "cleanup"}
             /\ ~is_write[s]) =>
                /\ committed'[s] = committed[s] /\ deleted'[s] = deleted[s]
                /\ cleanups'[s] = << >>
                /\ pc'[s] \notin {"commit", "cleanup", "panic"}
         /\ (is_write[s] /\ pc'[s] = "commit" /\ pc[s] # "commit") =>
                /\ pc[s] = "exit" /\ Tail(ps[s]) = << >> /\ err[s] = "none"
                /\ committed[s] = "no"
         /\ (is_write[s] /\ committed'[s] # committed[s]) =>
                /\ pc[s] = "commit" /\ pc'[s] # "commit" /\ committed[s] = "no"
         /\ (is_write'[s] /\ pc'[s] = "done") => committed'[s] = "ok"]_vars

\* C26 witness: a script without a storing statement has ended well, uncommitted,
\* and a script with one has ended well, committed.
C26_Witness ==
    \E s1, s2 \in Sessions :
        /\ pc[s1] = "done" /\ ~is_write[s1] /\ qid[<<s1, 1>>] # NoId
        /\ committed[s1] = "no" /\ deleted[s1] = << >>
        /\ pc[s2] = "done" /\ is_write[s2] /\ committed[s2] = "ok"

\* C27 as stated: a query for which KillRunning replied KILLING, wherever run_query
\* stood at that moment, ends with the "process killed" error, is the statement its
\* script stops at, and the script's transaction is not committed.
C27_KillAlwaysEnds ==
    \A q \in Queries :
        killed_at[q] # "none" =>
            /\ q = Q(q[1])
            /\ pc[q[1]] \in {"eval", "exit", "failed"}
            /\ pc[q[1]] # "eval" => err[q[1]] = "killed"
            /\ committed[q[1]] = "no"

\* C27 (amended): a query whose flag KillRunning set while its evaluation was still
\* to pass a round boundary ends with the "process killed" error, is the statement
\* its script stops at, and the script's transaction is not committed.
C27_KillBeforeLastCheck ==
    \A q \in Queries :
        killed_at[q] = "eval" =>
            /\ q = Q(q[1])
            /\ pc[q[1]] \in {"eval", "exit", "failed"}
            /\ pc[q[1]] # "eval" => err[q[1]] = "killed"
            /\ committed[q[1]] = "no"

\* C27 witness: a write script whose query was killed during evaluation has ended
\* with the "process killed" error, nothing committed.
C27_Witness ==
    \E s \in Sessions :
        /\ killed_at[Q(s)] = "eval" /\ kill_reply = "KILLING"
        /\ pc[s] = "failed" /\ err[s] = "killed"
        /\ is_write[s] /\ committed[s] = "no"

\* C28: a script that got as far as its second statement and returned an error to
\* the caller has not committed its transaction, and the catalog of the store holds
\* nothing the script wrote.
C28_ErrorMeansNoCommit ==
    \A s \in Sessions :
        (pc[s] = "failed" /\ cur[s] > 1) =>
            /\ committed[s] # "ok"
            /\ deleted[s] = << >>

\* C30: a call of Db::build that finds (or has written) a manifest with the current
\* storage version gets a storage engine that opens: the store exists or the
\* engine is told to create it.
C30_CurrentManifestOpens ==
    (bpc = "engine" /\ manifest = CURRENT_STORAGE_VERSION) => engine_opens(store, is_new)

\* C23: list_relations returns exactly one row [name, arity, n_keys, n_non_keys]
\* for each relation created and not removed or renamed away, and no other row,
\* in ascending order of name, with arity = n_keys + n_non_keys.
C23_ListRelations ==
    mpc = "listed" =>
        /\ Len(listed) = Cardinality(DOMAIN rels)
        /\ \A name \in DOMAIN rels :
              \E i \in 1..Len(listed) :
                  listed[i] = <<name, rels[name].keys + rels[name].deps,
                                rels[name].keys, rels[name].deps>>
        /\ \A i \in 1..Len(listed) :
              /\ listed[i][1] \in DOMAIN rels
              /\ listed[i][2] = listed[i][3] + listed[i][4]
        /\ \A i, j \in 1..Len(listed) :
              i < j => byte_compare(listed[i][1], listed[j][1]) = -1

\* C23 witness: with meta entries in the same column family, the listing of
\* A (1 key, 1 other column) and B (2 keys, 1 other column) is A's row, then B's.
C23_Witness ==
    /\ mpc = "listed"
    /\ kvs # << >>
    /\ listed = << <<(<<65>>), 2, 1, 1>>, <<(<<66>>), 3, 2, 1>> >>

\* C29: the items of meta_range_scan(prefix) are the entries put by put_meta_kv and
\* not removed since whose key path starts with prefix, each once, in ascending
\* order of key; no item is a catalog entry or fails to decode.
C29_ScanReturnsPrefixOnly ==
    mpc = "scanned" =>
        LET starts(k) == Len(k) >= Len(given) /\ SubSeq(k, 1, Len(given)) = given
        IN  /\ \A i \in 1..Len(found) :
                  /\ found[i].ok
                  /\ found[i].ks \in DOMAIN kvs
                  /\ starts(found[i].ks)
                  /\ found[i].v = StoredBytes(kvs[found[i].ks])
            /\ \A k \in DOMAIN kvs :
                  starts(k) => \E i \in 1..Len(found) : found[i].ks = k
            /\ \A i, j \in 1..Len(found) :
                  i < j => tuple_compare(meta_key(found[i].ks), meta_key(found[j].ks)) = -1

\* The open transaction creates the relation: absent in its snapshot, written by it.
Creates(t, name) == name \in t.wrote /\ name \in t.cat /\ name \notin t.snap

\* C31: of two scripts on different sessions that both create a relation of the same
\* name in overlapping transactions, at most one commits: once one of them has
\* committed the name, the other neither commits nor ends without an error.
C31_OneCreatorCommits ==
    [][\A s \in Sessions : \A name \in Names :
         (Creates(tx[s], name) /\ name \in tx[s].stale) =>
            /\ committed'[s] # "ok"
            /\ pc'[s] \notin {"cleanup", "done"}]_vars

\* C31 witness: one session has committed its creation of R while the other, which
\* created R in a transaction begun before that commit, stands at its own commit;
\* the catalog holds the one R.
C31_Witness ==
    \E s1, s2 \in Sessions :
        /\ s1 # s2
        /\ committed[s1] = "ok" /\ pc[s1] = "done" /\ catalog = {"R"}
        /\ pc[s2] = "commit" /\ Creates(tx[s2], "R") /\ "R" \in tx[s2].stale

====
